---- MODULE Spec2Model ----
(***************************************************************************)
(* WebhookGateway (src/src/index.ts, lines 1-365): an HTTP webhook that    *)
(* republishes requests onto a RabbitMQ fanout exchange, with a process-   *)
(* wide connection/channel pair and a fixed-interval, bounded reconnect.   *)
(*                                                                         *)
(* One action of the model is one turn of the Node.js event loop: a timer, *)
(* socket or signal callback together with the promise continuations it    *)
(* releases.  The program's global variables keep their names.  The amqp   *)
(* library and the broker are the environment: every outcome they can      *)
(* deliver (resolve, reject, 'error', 'close') is a separate action.       *)
(***************************************************************************)
EXTENDS Integers, FiniteSets, Sequences, TLC

\* ------------------------------------------------------------------ bounds
\* Largest MAX_RECONNECT_ATTEMPTS the configuration is drawn from (1..this).
MaxConfiguredAttempts == 2
\* Connection objects that can be open or referenced at the same time.
MaxConns == 2
\* Webhook requests suspended in `await ensureExchange` at the same time.
MaxInFlight == 1
\* Armed timers whose handle was overwritten in reconnectTimer.
MaxOrphanTimers == 1

\* --------------------------------------------------------------- constants
AUTH_TOKEN == "secret"
Undefined == "undefined"
NoChan == 0

ConnIds == 1..MaxConns
Slots == 1..MaxInFlight

\* req.query: a map from the keys present in the URL to their values.
\* Query(t, e, r) holds the keys whose value is not Undefined.
Query(t, e, r) ==
  LET v == [k \in {"token", "exchange", "ref"} |->
              IF k = "token" THEN t ELSE IF k = "exchange" THEN e ELSE r]
  IN [k \in {x \in DOMAIN v : v[x] # Undefined} |-> v[k]]
\* The requests sent: without token, with a wrong one, without exchange, with
\* an empty one, and valid ones for two exchanges, with and without a further
\* parameter.
Queries ==
  { Query(Undefined, Undefined, Undefined),
    Query(Undefined, "ex1", Undefined),
    Query("wrong", "ex1", "v"),
    Query("", "ex2", Undefined),
    Query(AUTH_TOKEN, Undefined, Undefined),
    Query(AUTH_TOKEN, "", "v"),
    Query(AUTH_TOKEN, "ex1", Undefined),
    Query(AUTH_TOKEN, "ex2", "v") }

VARIABLES
  MAX_RECONNECT_ATTEMPTS, \* configuration, fixed at load
  connection,             \* 0 (null) or the connection object
  channel,                \* 0 (null) or the channel object (named by its connection)
  isReconnecting,
  reconnectAttempts,
  reconnectTimer,         \* "null", "armed" (handle of a pending timer), "fired"
  orphanTimers,           \* pending timers no variable refers to
  exitCode,               \* -1 while the process runs, else process.exit's code
  exitReason,
  pc,                     \* "load" before start(), then "run"
  listening,              \* app.listen was called
  attempt,                \* where connectRabbitMQ is suspended: "none",
                          \* "connect" (line 68), "createChannel" (line 72)
  attemptCaller,          \* "start" or "timer": who awaits the attempt
  attemptConn,            \* the connection object createChannel was called on
  conns,                  \* connection object -> "open" / "closed"
  hooked,                 \* connection object -> 'error'/'close' handlers set
  chans,                  \* channel object -> "open" / "closed"
  inflight,               \* requests suspended at line 179
  sigint,                 \* where the SIGINT handler is suspended
  response                \* the HTTP response this step sent, if any

core == <<connection, channel, isReconnecting, reconnectAttempts,
          reconnectTimer, orphanTimers, exitCode, exitReason>>
vars == <<MAX_RECONNECT_ATTEMPTS, connection, channel, isReconnecting,
          reconnectAttempts, reconnectTimer, orphanTimers, exitCode,
          exitReason, pc, listening, attempt, attemptCaller, attemptConn,
          conns, hooked, chans, inflight, sigint, response>>

\* The program's mutable globals as one record, so that a handler's
\* statements compose as function applications.
Globals ==
  [connection |-> connection, channel |-> channel,
   isReconnecting |-> isReconnecting, reconnectAttempts |-> reconnectAttempts,
   reconnectTimer |-> reconnectTimer, orphanTimers |-> orphanTimers,
   exitCode |-> exitCode, exitReason |-> exitReason]

Alive(s) == s.exitCode = -1
PendingTimers(s) == (IF s.reconnectTimer = "armed" THEN 1 ELSE 0) + s.orphanTimers

Exit(s, code, why) == [s EXCEPT !.exitCode = code, !.exitReason = why]

\* setTimeout(...) assigned to reconnectTimer: a handle that was still armed
\* is overwritten, its timer stays pending.
SetTimeout(s) ==
  [s EXCEPT !.orphanTimers = IF s.reconnectTimer = "armed" THEN @ + 1 ELSE @,
            !.reconnectTimer = "armed"]

\* if (reconnectTimer) { clearTimeout(reconnectTimer); reconnectTimer = null; }
ClearTimer(s) ==
  IF s.reconnectTimer # "null" THEN [s EXCEPT !.reconnectTimer = "null"] ELSE s

scheduleReconnect(s) ==
  IF s.isReconnecting THEN s
  ELSE IF s.reconnectAttempts >= MAX_RECONNECT_ATTEMPTS
       THEN Exit(s, 1, "exhausted")
       ELSE SetTimeout(s)

handleConnectionError(s) ==
  scheduleReconnect(ClearTimer([s EXCEPT !.channel = NoChan]))

handleConnectionClose(s) ==
  scheduleReconnect(ClearTimer([s EXCEPT !.channel = NoChan, !.connection = 0]))

\* Mutation: the failure branch resets the counter, like the success branch.
ConnectFailed_ResetsCounter(s) ==
  [s EXCEPT !.isReconnecting = FALSE, !.reconnectAttempts = 0]

\* The catch block of connectRabbitMQ (lines 114-121).
ConnectFailed(s) ==
  LET t == [s EXCEPT !.isReconnecting = FALSE] IN
  IF t.reconnectAttempts >= MAX_RECONNECT_ATTEMPTS
  THEN Exit(t, 1, "exhausted")
  ELSE t

\* Mutation: the timer callback does not call scheduleReconnect (line 167).
AfterConnect_NoRetry(s, caller, connected) ==
  IF ~Alive(s) \/ connected THEN s
  ELSE IF caller = "start"
       THEN IF s.reconnectAttempts >= MAX_RECONNECT_ATTEMPTS
            THEN Exit(s, 1, "exhausted")
            ELSE scheduleReconnect(s)
       ELSE s

\* What the awaiting caller does once connectRabbitMQ returned `connected`.
AfterConnect(s, caller, connected) ==
  IF ~Alive(s) THEN s
  ELSE IF connected THEN s
  ELSE IF caller = "start" /\ s.reconnectAttempts >= MAX_RECONNECT_ATTEMPTS
       THEN Exit(s, 1, "exhausted")
       ELSE scheduleReconnect(s)

NoQuery == [k \in {} |-> ""]
NoMessage == [exchange |-> Undefined]
\* What a step answered: the status, and the broker calls the request has
\* made in all (assertExchange, publish) with the arguments of the publish.
\* `request` says which request the step handled: "none", an arriving one
\* ("badToken", "noExchange", "valid"), or one resumed after assertExchange
\* settled ("declared", "refused"); "turnedAway" marks the step in which
\* connectRabbitMQ logged line 36 and returned false.
Resp(status, declares, publishes, message) ==
  [status |-> status, declares |-> declares, publishes |-> publishes,
   message |-> message, request |-> "none"]
NoResponse == Resp(0, 0, 0, NoMessage)
Tagged(resp, tag) == [resp EXCEPT !.request = tag]

\* Assign the globals from record s.
Commit(s) ==
  /\ s.orphanTimers <= MaxOrphanTimers
  /\ connection' = s.connection
  /\ channel' = s.channel
  /\ isReconnecting' = s.isReconnecting
  /\ reconnectAttempts' = s.reconnectAttempts
  /\ reconnectTimer' = s.reconnectTimer
  /\ orphanTimers' = s.orphanTimers
  /\ exitCode' = s.exitCode
  /\ exitReason' = s.exitReason

Running == exitCode = -1 /\ pc = "run"

Idle == [busy |-> FALSE, query |-> NoQuery, chan |-> NoChan]
NoSignal == [at |-> "none", obj |-> 0]

Init ==
  /\ MAX_RECONNECT_ATTEMPTS \in 1..MaxConfiguredAttempts
  /\ connection = 0
  /\ channel = NoChan
  /\ isReconnecting = FALSE
  /\ reconnectAttempts = 0
  /\ reconnectTimer = "null"
  /\ orphanTimers = 0
  /\ exitCode = -1
  /\ exitReason = "none"
  /\ pc = "load"
  /\ listening = FALSE
  /\ attempt = "none"
  /\ attemptCaller = "none"
  /\ attemptConn = 0
  /\ conns = [c \in ConnIds |-> "closed"]
  /\ hooked = [c \in ConnIds |-> FALSE]
  /\ chans = [c \in ConnIds |-> "closed"]
  /\ inflight = [r \in Slots |-> Idle]
  /\ sigint = NoSignal
  /\ response = NoResponse

\* Mutation: line 42 is missing.
BeginConnect_NoIncrement(s) == [s EXCEPT !.isReconnecting = TRUE]

\* Mutation: line 41 is missing, the flag is not raised.
BeginConnect_NoFlag(s) == [s EXCEPT !.reconnectAttempts = @ + 1]

\* Mutation: line 42 counts the attempt twice.
BeginConnect_CountsTwice(s) ==
  [s EXCEPT !.isReconnecting = TRUE, !.reconnectAttempts = @ + 2]

\* connectRabbitMQ past its guard, up to its first await (lines 40-68).
BeginConnect(s) ==
  [s EXCEPT !.isReconnecting = TRUE, !.reconnectAttempts = @ + 1]

\* Mutation: the guard of lines 35-38 is missing.
connectRabbitMQ_NoGuard(s) == [g |-> BeginConnect(s), began |-> TRUE]

\* connectRabbitMQ up to its first await: turned away by the guard of line 35
\* (returns false, nothing assigned), or begun and suspended at line 68.
connectRabbitMQ(s) ==
  IF s.isReconnecting
  THEN [g |-> s, began |-> FALSE]
  ELSE [g |-> BeginConnect(s), began |-> TRUE]

\* start() up to `await connectRabbitMQ()`.
Start ==
  /\ pc = "load" /\ exitCode = -1
  /\ pc' = "run"
  /\ attempt' = "connect"
  /\ attemptCaller' = "start"
  /\ Commit(connectRabbitMQ(Globals).g)
  /\ response' = NoResponse
  /\ UNCHANGED <<MAX_RECONNECT_ATTEMPTS, listening, attemptConn, conns, hooked,
                 chans, inflight, sigint>>

\* The callback of the timer armed at line 164: one pending timer fires.
\* connectRabbitMQ either returns false at once (line 37) and the callback's
\* scheduleReconnect follows in the same turn, or it suspends at line 68.
TimerFire ==
  /\ Running
  /\ PendingTimers(Globals) > 0
  /\ \E viaHandle \in BOOLEAN :
       /\ viaHandle => reconnectTimer = "armed"
       /\ ~viaHandle => orphanTimers > 0
       /\ LET s0 == IF viaHandle
                    THEN [Globals EXCEPT !.reconnectTimer = "fired"]
                    ELSE [Globals EXCEPT !.orphanTimers = @ - 1]
              e == connectRabbitMQ(s0)
          IN IF e.began
             THEN /\ Commit(e.g)
                  /\ attempt' = "connect"
                  /\ attemptCaller' = "timer"
                  /\ response' = NoResponse
             ELSE /\ Commit(scheduleReconnect(e.g))
                  /\ UNCHANGED <<attempt, attemptCaller>>
                  /\ response' = Tagged(NoResponse, "turnedAway")
  /\ UNCHANGED <<MAX_RECONNECT_ATTEMPTS, pc, listening, attemptConn, conns,
                 hooked, chans, inflight, sigint>>

\* A connection object is referenced while a variable or a suspended call
\* still holds it.
Referenced(c) ==
  \/ connection = c
  \/ channel = c
  \/ attemptConn = c
  \/ \E r \in Slots : inflight[r].busy /\ inflight[r].chan = c

FreeConns == {c \in ConnIds : conns[c] = "closed" /\ ~Referenced(c)}

\* start() reaches app.listen once its await returned and the process lives.
Listen(s) == listening \/ (attemptCaller = "start" /\ Alive(s))

\* amqp.connect resolved (line 68); createChannel is called on the result.
ConnectResolved ==
  /\ Running /\ attempt = "connect"
  /\ FreeConns # {}
  /\ LET c == CHOOSE x \in FreeConns : \A y \in FreeConns : x <= y IN
       /\ Commit([Globals EXCEPT !.connection = c])
       /\ conns' = [conns EXCEPT ![c] = "open"]
       /\ hooked' = [hooked EXCEPT ![c] = FALSE]
       /\ attemptConn' = c
  /\ attempt' = "createChannel"
  /\ response' = NoResponse
  /\ UNCHANGED <<MAX_RECONNECT_ATTEMPTS, pc, listening, attemptCaller, chans,
                 inflight, sigint>>

\* amqp.connect rejected: the catch block, then the caller's continuation.
ConnectRejected ==
  /\ Running /\ attempt = "connect"
  /\ LET s == AfterConnect(ConnectFailed(Globals), attemptCaller, FALSE) IN
       /\ Commit(s)
       /\ listening' = Listen(s)
  /\ attempt' = "none"
  /\ attemptCaller' = "none"
  /\ response' = NoResponse
  /\ UNCHANGED <<MAX_RECONNECT_ATTEMPTS, pc, attemptConn, conns, hooked, chans,
                 inflight, sigint>>

\* Mutation: line 87 is missing, a successful connect keeps the counter.
ConnectSucceeded_NoReset(s, c) ==
  LET t == [s EXCEPT !.channel = c] IN
  IF t.connection = 0
  THEN ConnectFailed(t)
  ELSE [t EXCEPT !.isReconnecting = FALSE]

\* Lines 72-89 after createChannel resolved.  `connection.on` reads the
\* global: when a close event of an earlier connection set it to null
\* meanwhile, line 76 throws and the catch block runs with channel assigned.
ConnectSucceeded(s, c) ==
  LET t == [s EXCEPT !.channel = c] IN
  IF t.connection = 0
  THEN ConnectFailed(t)
  ELSE [t EXCEPT !.isReconnecting = FALSE, !.reconnectAttempts = 0]

ChannelCreated ==
  /\ Running /\ attempt = "createChannel"
  /\ conns[attemptConn] = "open"
  /\ LET ok == connection # 0
         s == AfterConnect(ConnectSucceeded(Globals, attemptConn),
                           attemptCaller, ok)
     IN /\ Commit(s)
        /\ listening' = Listen(s)
        /\ hooked' = IF ok THEN [hooked EXCEPT ![connection] = TRUE] ELSE hooked
  /\ chans' = [chans EXCEPT ![attemptConn] = "open"]
  /\ attempt' = "none"
  /\ attemptCaller' = "none"
  /\ attemptConn' = 0
  /\ response' = NoResponse
  /\ UNCHANGED <<MAX_RECONNECT_ATTEMPTS, pc, conns, inflight, sigint>>

\* createChannel rejected: the catch block; `connection` keeps the object.
ChannelRejected ==
  /\ Running /\ attempt = "createChannel"
  /\ LET s == AfterConnect(ConnectFailed(Globals), attemptCaller, FALSE) IN
       /\ Commit(s)
       /\ listening' = Listen(s)
  /\ attempt' = "none"
  /\ attemptCaller' = "none"
  /\ attemptConn' = 0
  /\ response' = NoResponse
  /\ UNCHANGED <<MAX_RECONNECT_ATTEMPTS, pc, conns, hooked, chans, inflight,
                 sigint>>

\* 'error' emitted by a connection whose handlers are registered (line 76).
ConnectionError(c) ==
  /\ Running /\ conns[c] = "open" /\ hooked[c]
  /\ Commit(handleConnectionError(Globals))
  /\ response' = NoResponse
  /\ UNCHANGED <<MAX_RECONNECT_ATTEMPTS, pc, listening, attempt, attemptCaller,
                 attemptConn, conns, hooked, chans, inflight, sigint>>

\* 'close' emitted by a connection whose handlers are registered (line 77).
ConnectionClose(c) ==
  /\ Running /\ conns[c] = "open" /\ hooked[c]
  /\ Commit(handleConnectionClose(Globals))
  /\ conns' = [conns EXCEPT ![c] = "closed"]
  /\ chans' = [chans EXCEPT ![c] = "closed"]
  /\ hooked' = [hooked EXCEPT ![c] = FALSE]
  /\ response' = NoResponse
  /\ UNCHANGED <<MAX_RECONNECT_ATTEMPTS, pc, listening, attempt, attemptCaller,
                 attemptConn, inflight, sigint>>

\* A connection without handlers (opened at line 68, lines 76-77 not reached)
\* closes: nothing runs.
UnhookedClose(c) ==
  /\ Running /\ conns[c] = "open" /\ ~hooked[c]
  /\ conns' = [conns EXCEPT ![c] = "closed"]
  /\ chans' = [chans EXCEPT ![c] = "closed"]
  /\ response' = NoResponse
  /\ UNCHANGED <<core, MAX_RECONNECT_ATTEMPTS, pc, listening, attempt,
                 attemptCaller, attemptConn, hooked, inflight, sigint>>

\* An 'error' event nobody listens to is thrown by the emitter and reaches
\* the uncaughtException handler (lines 360-363).
uncaughtException(s) == Exit(s, 1, "uncaught")

UnhookedError(c) ==
  /\ Running /\ conns[c] = "open" /\ ~hooked[c]
  /\ Commit(uncaughtException(Globals))
  /\ response' = NoResponse
  /\ UNCHANGED <<MAX_RECONNECT_ATTEMPTS, pc, listening, attempt, attemptCaller,
                 attemptConn, conns, hooked, chans, inflight, sigint>>

\* The channel closes with or without an 'error' event.  The handlers of
\* lines 78-83 only log; a channel created at line 72 whose registration was
\* not reached has none, and its 'error' is an uncaught exception.
ChannelError(c, withError) ==
  /\ Running /\ chans[c] = "open"
  /\ chans' = [chans EXCEPT ![c] = "closed"]
  /\ Commit(IF withError /\ ~hooked[c] THEN uncaughtException(Globals)
            ELSE Globals)
  /\ response' = NoResponse
  /\ UNCHANGED <<MAX_RECONNECT_ATTEMPTS, pc, listening, attempt, attemptCaller,
                 attemptConn, conns, hooked, inflight, sigint>>

\* ---------------------------------------------------------------- webhook
Get(q, k) == IF k \in DOMAIN q THEN q[k] ELSE Undefined
Falsy(v) == v \in {Undefined, ""}
\* delete queryParams[k]
Without(q, k) == [x \in DOMAIN q \ {k} |-> q[x]]

\* Mutation: the availability check comes first, then token and exchange.
WebhookEntry_AvailabilityFirst(s, q) ==
  IF s.channel = NoChan
  THEN LET g == IF ~s.isReconnecting /\ s.reconnectTimer = "null"
                THEN scheduleReconnect(s) ELSE s
       IN [g |-> g, resp |-> Resp(503, 0, 0, NoMessage), ensure |-> FALSE]
  ELSE IF Falsy(Get(q, "token")) \/ Get(q, "token") # AUTH_TOKEN
  THEN [g |-> s, resp |-> Resp(401, 0, 0, NoMessage), ensure |-> FALSE]
  ELSE IF Falsy(Get(q, "exchange"))
  THEN [g |-> s, resp |-> Resp(400, 0, 0, NoMessage), ensure |-> FALSE]
  ELSE [g |-> s, resp |-> NoResponse, ensure |-> TRUE]

\* Mutation: the exchange parameter is looked at after the availability
\* check instead of before it.
WebhookEntry_ExchangeLast(s, q) ==
  IF Falsy(Get(q, "token")) \/ Get(q, "token") # AUTH_TOKEN
  THEN [g |-> s, resp |-> Resp(401, 0, 0, NoMessage), ensure |-> FALSE]
  ELSE IF s.channel = NoChan
  THEN LET g == IF ~s.isReconnecting /\ s.reconnectTimer = "null"
                THEN scheduleReconnect(s) ELSE s
       IN [g |-> g, resp |-> Resp(503, 0, 0, NoMessage), ensure |-> FALSE]
  ELSE IF Falsy(Get(q, "exchange"))
  THEN [g |-> s, resp |-> Resp(400, 0, 0, NoMessage), ensure |-> FALSE]
  ELSE [g |-> s, resp |-> NoResponse, ensure |-> TRUE]

\* The handler of /webhook from line 191 to the call of ensureExchange at
\* line 223: the globals after it, the response if it returned one, and
\* whether it went on to ensureExchange.
WebhookEntry(s, q) ==
  LET token == Get(q, "token")
      exchangeName == Get(q, "exchange")
  IN
  IF Falsy(token) \/ token # AUTH_TOKEN
  THEN [g |-> s, resp |-> Resp(401, 0, 0, NoMessage), ensure |-> FALSE]
  ELSE IF Falsy(exchangeName)
  THEN [g |-> s, resp |-> Resp(400, 0, 0, NoMessage), ensure |-> FALSE]
  ELSE IF s.channel = NoChan
  THEN LET g == IF ~s.isReconnecting /\ s.reconnectTimer = "null"
                THEN scheduleReconnect(s) ELSE s
       IN [g |-> g,
           resp |-> IF Alive(g) THEN Resp(503, 0, 0, NoMessage)
                    ELSE NoResponse,
           ensure |-> FALSE]
  ELSE [g |-> s, resp |-> NoResponse, ensure |-> TRUE]

\* ensureExchange (lines 172-188) up to its await: with no channel it throws
\* at line 175 and returns false; with one it calls channel.assertExchange
\* at line 179, for every request, and suspends.
ensureExchangeCalls(s) == s.channel # NoChan

\* Mutation: `delete queryParams.token` is missing.
PublishCall_KeepsToken(q) ==
  [exchange |-> Get(q, "exchange"), routingKey |-> "",
   params |-> Without(q, "exchange"),
   persistent |-> TRUE, contentType |-> "application/json"]

\* Lines 231-251: the arguments of channel.publish.
PublishCall(q) ==
  [exchange |-> Get(q, "exchange"), routingKey |-> "",
   params |-> Without(Without(q, "exchange"), "token"),
   persistent |-> TRUE, contentType |-> "application/json"]

\* Mutation: the check of exchangeReady (lines 224-229) is missing.
WebhookResume_IgnoresReady(s, q, exchangeReady, open) ==
  IF s.channel = NoChan
  THEN [g |-> s, resp |-> Resp(500, 1, 0, NoMessage)]
  ELSE IF open[s.channel] # "open"
  THEN LET g == scheduleReconnect([s EXCEPT !.channel = NoChan])
       IN [g |-> g, resp |-> Resp(500, 1, 0, NoMessage)]
  ELSE [g |-> s, resp |-> Resp(200, 1, 1, PublishCall(q))]

\* Mutation: the catch block answers 500 without lines 270-273.
WebhookResume_NoRecovery(s, q, exchangeReady, open) ==
  IF ~exchangeReady \/ s.channel = NoChan
  THEN [g |-> s, resp |-> Resp(500, 1, 0, NoMessage)]
  ELSE IF open[s.channel] # "open"
  THEN [g |-> s, resp |-> Resp(500, 1, 0, NoMessage)]
  ELSE [g |-> s, resp |-> Resp(200, 1, 1, PublishCall(q))]

\* Lines 224-280 once ensureExchange returned exchangeReady, with `open` the
\* state of the channel objects at that moment.
WebhookResume(s, q, exchangeReady, open) ==
  IF ~exchangeReady
  THEN [g |-> s, resp |-> Resp(500, 1, 0, NoMessage)]
  ELSE IF s.channel = NoChan
  THEN \* channel.publish on null: TypeError, no 'closed' in its message
       [g |-> s, resp |-> Resp(500, 1, 0, NoMessage)]
  ELSE IF open[s.channel] # "open"
  THEN \* publish throws IllegalOperationError('Channel closed')
       LET g == scheduleReconnect([s EXCEPT !.channel = NoChan])
       IN [g |-> g,
           resp |-> IF Alive(g) THEN Resp(500, 1, 0, NoMessage)
                    ELSE NoResponse]
  ELSE [g |-> s, resp |-> Resp(200, 1, 1, PublishCall(q))]

\* The request as the claims classify it, read off the query alone.
RequestClass(q) ==
  IF Get(q, "token") # AUTH_TOKEN THEN "badToken"
  ELSE IF Get(q, "exchange") \in {Undefined, ""} THEN "noExchange"
  ELSE "valid"

FreeSlots == {r \in Slots : ~inflight[r].busy}

\* A request arrives: lines 191-223, and ensureExchange up to line 179.
\* assertExchange on a channel object that is already closed rejects in the
\* same turn (ensureExchange returns false); otherwise the request suspends.
Webhook(q) ==
  /\ Running /\ listening
  /\ LET e == WebhookEntry(Globals, q) IN
     IF ~e.ensure
     THEN /\ Commit(e.g)
          /\ response' = Tagged(e.resp, RequestClass(q))
          /\ UNCHANGED inflight
     ELSE IF ~ensureExchangeCalls(e.g)
     THEN LET w == WebhookResume(e.g, q, FALSE, chans) IN
          /\ Commit(w.g)
          /\ response' = Tagged([w.resp EXCEPT !.declares = 0], RequestClass(q))
          /\ UNCHANGED inflight
     ELSE IF chans[channel] # "open"
     THEN LET w == WebhookResume(e.g, q, FALSE, chans) IN
          /\ Commit(w.g)
          /\ response' = Tagged(w.resp, RequestClass(q))
          /\ UNCHANGED inflight
     ELSE /\ FreeSlots # {}
          /\ LET r == CHOOSE x \in FreeSlots : \A y \in FreeSlots : x <= y IN
               inflight' = [inflight EXCEPT
                              ![r] = [busy |-> TRUE, query |-> q, chan |-> channel]]
          /\ Commit(e.g)
          /\ response' = Tagged(NoResponse, RequestClass(q))
  /\ UNCHANGED <<MAX_RECONNECT_ATTEMPTS, pc, listening, attempt, attemptCaller,
                 attemptConn, conns, hooked, chans, sigint>>

\* assertExchange of request r resolved.  The broker may close the channel in
\* the same batch of frames (closeNow), before the continuation publishes.
EnsureResolved(r, closeNow) ==
  /\ Running /\ inflight[r].busy
  /\ chans[inflight[r].chan] = "open"
  /\ LET q == inflight[r].query
         open == IF closeNow THEN [chans EXCEPT ![inflight[r].chan] = "closed"]
                 ELSE chans
         w == WebhookResume(Globals, q, TRUE, open)
     IN /\ chans' = open
        /\ Commit(w.g)
        /\ response' = Tagged(w.resp, "declared")
  /\ inflight' = [inflight EXCEPT ![r] = Idle]
  /\ UNCHANGED <<MAX_RECONNECT_ATTEMPTS, pc, listening, attempt, attemptCaller,
                 attemptConn, conns, hooked, sigint>>

\* assertExchange of request r rejected (the broker refused it, or the
\* channel or connection went away): ensureExchange returns false.
EnsureRejected(r) ==
  /\ Running /\ inflight[r].busy
  /\ LET w == WebhookResume(Globals, inflight[r].query, FALSE, chans) IN
       /\ Commit(w.g)
       /\ response' = Tagged(w.resp, "refused")
  /\ inflight' = [inflight EXCEPT ![r] = Idle]
  /\ UNCHANGED <<MAX_RECONNECT_ATTEMPTS, pc, listening, attempt, attemptCaller,
                 attemptConn, conns, hooked, chans, sigint>>

\* ----------------------------------------------------------------- SIGINT
\* The SIGINT handler (lines 337-354) from `if (connection)` on: close() of
\* an object that is already closed throws and the catch block is entered.
ShutdownConnection(s, open) ==
  IF s.connection # 0 /\ open[s.connection] = "open"
  THEN [g |-> s, sig |-> [at |-> "closeConnection", obj |-> s.connection]]
  ELSE [g |-> Exit(s, 0, "sigint"), sig |-> NoSignal]

\* The handler up to its first await, or to process.exit(0).
Shutdown(s) ==
  LET t == ClearTimer(s) IN
  IF t.channel # NoChan
  THEN IF chans[t.channel] = "open"
       THEN [g |-> t, sig |-> [at |-> "closeChannel", obj |-> t.channel]]
       ELSE [g |-> Exit(t, 0, "sigint"), sig |-> NoSignal]
  ELSE ShutdownConnection(t, conns)

SigInt ==
  /\ Running /\ sigint.at = "none"
  /\ LET d == Shutdown(Globals) IN
       /\ Commit(d.g)
       /\ sigint' = d.sig
  /\ response' = NoResponse
  /\ UNCHANGED <<MAX_RECONNECT_ATTEMPTS, pc, listening, attempt, attemptCaller,
                 attemptConn, conns, hooked, chans, inflight>>

\* channel.close() settled: on success the handler goes on to the connection,
\* on failure to the catch block and process.exit(0).
ChannelCloseSettled(ok) ==
  /\ Running /\ sigint.at = "closeChannel"
  /\ chans' = [chans EXCEPT ![sigint.obj] = "closed"]
  /\ LET d == IF ok THEN ShutdownConnection(Globals, conns)
              ELSE [g |-> Exit(Globals, 0, "sigint"), sig |-> NoSignal]
     IN /\ Commit(d.g)
        /\ sigint' = d.sig
  /\ response' = NoResponse
  /\ UNCHANGED <<MAX_RECONNECT_ATTEMPTS, pc, listening, attempt, attemptCaller,
                 attemptConn, conns, hooked, inflight>>

\* connection.close() settled either way: process.exit(0).
ConnectionCloseSettled ==
  /\ Running /\ sigint.at = "closeConnection"
  /\ Commit(Exit(Globals, 0, "sigint"))
  /\ sigint' = NoSignal
  /\ response' = NoResponse
  /\ UNCHANGED <<MAX_RECONNECT_ATTEMPTS, pc, listening, attempt, attemptCaller,
                 attemptConn, conns, hooked, chans, inflight>>

Next ==
  \/ Start
  \/ TimerFire
  \/ ConnectResolved
  \/ ConnectRejected
  \/ ChannelCreated
  \/ ChannelRejected
  \/ \E c \in ConnIds : ConnectionError(c)
  \/ \E c \in ConnIds : ConnectionClose(c)
  \/ \E c \in ConnIds : UnhookedClose(c)
  \/ \E c \in ConnIds : UnhookedError(c)
  \/ \E c \in ConnIds, e \in BOOLEAN : ChannelError(c, e)
  \/ \E q \in Queries : Webhook(q)
  \/ \E r \in Slots, closeNow \in BOOLEAN : EnsureResolved(r, closeNow)
  \/ \E r \in Slots : EnsureRejected(r)
  \/ SigInt
  \/ \E ok \in BOOLEAN : ChannelCloseSettled(ok)
  \/ ConnectionCloseSettled

Spec == Init /\ [][Next]_vars

\* ------------------------------------------------------------------ claims
\* C1 (as claimed): in every reachable state at most one reconnect timer is
\* pending, whatever error events, close events, requests and timer firings
\* occurred.
C1_AtMostOnePendingTimer == PendingTimers(Globals) <= 1

\* A connect attempt ends in failure: amqp.connect or createChannel rejected,
\* or line 76 threw because `connection` was null.
AttemptFails == ConnectRejected \/ ChannelRejected \/ (ChannelCreated /\ connection = 0)
\* A connect attempt ends in success (line 89).
AttemptSucceeds == ChannelCreated /\ connection # 0
\* A connect attempt gets past the guard of line 35.
AttemptBegins == attempt = "none" /\ attempt' = "connect"

\* C2: a connect attempt that fails with reconnectAttempts at
\* MAX_RECONNECT_ATTEMPTS ends the process with exit code 1 in that step, and
\* once the process has exited nothing changes any more: no timer is armed, no
\* connect attempt starts.
C2_ExhaustedExits ==
  [][/\ (AttemptFails /\ reconnectAttempts >= MAX_RECONNECT_ATTEMPTS)
          => (exitCode' = 1 /\ attempt' = "none")
     /\ exitCode # -1 => UNCHANGED vars]_vars

\* The process ended on exhausted attempts after the server was up.
C2_Witness ==
  /\ exitCode = 1 /\ exitReason = "exhausted"
  /\ listening
  /\ reconnectAttempts = MAX_RECONNECT_ATTEMPTS

\* C3: reconnectAttempts grows by exactly one when an attempt gets past the
\* guard, a failing attempt leaves that increment in place, no other step
\* (error, close, request, timer, signal) changes it, and it becomes 0 on, and
\* only on, a successful connect.
C3_AttemptCounter ==
  [][/\ AttemptBegins => reconnectAttempts' = reconnectAttempts + 1
     /\ AttemptFails => reconnectAttempts' = reconnectAttempts
     /\ AttemptSucceeds => reconnectAttempts' = 0
     /\ reconnectAttempts' # reconnectAttempts => (AttemptBegins \/ AttemptSucceeds)
     /\ AttemptFails => reconnectAttempts >= 1]_vars

\* A failed attempt left the counter at 1 and the process waits for a timer.
C3_Witness ==
  /\ exitCode = -1 /\ listening
  /\ reconnectAttempts = 1 /\ ~isReconnecting
  /\ reconnectTimer = "armed"

\* C4 (as claimed): a connection-close or channel-error event on the current
\* link leaves the channel handle cleared, and the handle is set again only by
\* a successful connect.
C4_ChannelClearedUntilConnect ==
  [][/\ (\E c \in ConnIds : ConnectionClose(c)) => channel' = NoChan
     /\ (\E c \in ConnIds : ChannelError(c, TRUE) /\ c = channel /\ exitCode' = -1)
          => channel' = NoChan
     /\ (channel = NoChan /\ channel' # NoChan) => AttemptSucceeds]_vars

\* C5 (as claimed): when a request has just been answered 200 (its
\* ensureExchange succeeded on the one open connection), a next request for
\* the same exchange on that connection makes no assertExchange call.
C5_SecondEnsureFromCache ==
  [][\A r \in Slots :
       (/\ response.status = 200
        /\ Cardinality({c \in ConnIds : conns[c] = "open"}) = 1
        /\ channel' = channel
        /\ ~inflight[r].busy /\ inflight'[r].busy)
         => inflight'[r].query["exchange"] # response.message.exchange]_vars

\* C6: a request without the configured token is answered 401 whatever the
\* broker state, makes no assertExchange and no publish call, and leaves the
\* connection state, the counter, the timers and the suspended requests alone.
C6_BadToken401 ==
  [][response'.request = "badToken"
       => /\ response'.status = 401
          /\ response'.declares = 0 /\ response'.publishes = 0
          /\ UNCHANGED <<core, inflight, attempt, chans, conns>>]_vars

\* A 401 was sent while no channel is set and a connect attempt is under way.
C6_Witness ==
  /\ response.request = "badToken" /\ response.status = 401
  /\ channel = NoChan /\ exitCode = -1 /\ isReconnecting

\* C7: a request with the token but without an exchange name is answered 400
\* whatever the broker state: never 503, no timer armed, no broker call.
C7_NoExchange400 ==
  [][response'.request = "noExchange"
       => /\ response'.status = 400
          /\ response'.declares = 0 /\ response'.publishes = 0
          /\ UNCHANGED <<core, inflight, attempt, chans, conns>>]_vars

\* A 400 was sent while no channel is set and the 503 branch would have
\* armed a timer.
C7_Witness ==
  /\ response.request = "noExchange" /\ response.status = 400
  /\ channel = NoChan /\ exitCode = -1
  /\ ~isReconnecting /\ reconnectTimer = "null"

\* C8 (as claimed): a valid request that finds no channel is answered 503,
\* arms at most one timer, arms none when a timer is pending or an attempt is
\* in progress, and makes no broker call.
C8_Unavailable503 ==
  [][(response'.request = "valid" /\ channel = NoChan)
       => /\ response'.status = 503
          /\ response'.declares = 0 /\ response'.publishes = 0
          /\ inflight' = inflight
          /\ PendingTimers(Globals)' <= PendingTimers(Globals) + 1
          /\ (isReconnecting \/ PendingTimers(Globals) > 0)
               => PendingTimers(Globals)' = PendingTimers(Globals)]_vars

\* The publish call the claim describes, written from the request alone.
ExpectedPublish(q) ==
  [exchange |-> q["exchange"], routingKey |-> "",
   params |-> [k \in DOMAIN q \ {"token", "exchange"} |-> q[k]],
   persistent |-> TRUE, contentType |-> "application/json"]

\* C9: when the assertion of a valid request succeeds and the channel is
\* (still) connected, the request is answered 200 after exactly one publish
\* call: named exchange, empty routing key, persistent, JSON content type,
\* params = the query minus token and exchange.
C9_Published200 ==
  [][\A r \in Slots :
       (/\ response'.request = "declared"
        /\ inflight[r].busy /\ ~inflight'[r].busy
        /\ channel # NoChan /\ chans'[channel] = "open")
         => /\ response'.status = 200
            /\ response'.declares = 1 /\ response'.publishes = 1
            /\ response'.message = ExpectedPublish(inflight[r].query)
            /\ UNCHANGED core]_vars

\* A 200 whose request carried a further query parameter.
C9_Witness ==
  /\ response.status = 200
  /\ response.message.exchange = "ex2"
  /\ DOMAIN response.message.params = {"ref"}

\* C10 (as claimed): once the SIGINT handler has started, the process ends
\* with exit code 0, or 1 only through an uncaught exception.
C10_ShutdownExitsZero ==
  [][(sigint.at # "none" /\ exitCode = -1 /\ exitCode' # -1)
       => (exitCode' = 0 \/ exitReason' = "uncaught")]_vars

\* C11 (as claimed): in every reachable state a channel handle that is set
\* comes with a connection handle that is set and with no connect attempt in
\* progress.
C11_ChannelImpliesConnected ==
  channel # NoChan => (connection # 0 /\ ~isReconnecting)

\* C12: isReconnecting is true exactly while a connect attempt is suspended
\* at line 68 or line 72, an attempt begins only from a state with the flag
\* false and no attempt suspended, and amqp.connect resolves only for that
\* one attempt.
C12_OneAttemptInFlight ==
  [][/\ isReconnecting <=> (attempt # "none")
     /\ isReconnecting' <=> (attempt' # "none")
     /\ (reconnectAttempts' = reconnectAttempts + 1)
          => (~isReconnecting /\ isReconnecting')
     /\ (\E c \in ConnIds : conns[c] # "open" /\ conns'[c] = "open")
          => (isReconnecting /\ isReconnecting' /\ attempt = "connect")]_vars

\* An error or close event arrived while the attempt a timer began was
\* suspended: it cleared the handle, and scheduleReconnect saw the flag.
C12_Witness ==
  /\ exitCode = -1
  /\ isReconnecting /\ attempt = "createChannel"
  /\ reconnectTimer = "null" /\ PendingTimers(Globals) = 0
  /\ attemptCaller = "timer"

\* C13: in every reachable state 0 <= reconnectAttempts <=
\* MAX_RECONNECT_ATTEMPTS.
C13_CounterWithinBounds ==
  reconnectAttempts >= 0 /\ reconnectAttempts <= MAX_RECONNECT_ATTEMPTS

\* The counter is at a bound of 2 while the attempt a timer began is
\* suspended.
C13_Witness ==
  /\ exitCode = -1
  /\ MAX_RECONNECT_ATTEMPTS = 2 /\ reconnectAttempts = 2
  /\ attempt = "connect" /\ attemptCaller = "timer"

\* C14 (as claimed): scheduleReconnect arms a timer only when no attempt is
\* in progress, no timer is pending and the counter is below the limit: a
\* step that leaves more timers pending than it found started with none, and
\* ends with the flag false and reconnectAttempts < MAX_RECONNECT_ATTEMPTS.
C14_ScheduleReconnectNoOp ==
  [][PendingTimers(Globals)' > PendingTimers(Globals)
       => /\ PendingTimers(Globals) = 0
          /\ ~isReconnecting'
          /\ reconnectAttempts' < MAX_RECONNECT_ATTEMPTS]_vars

\* C15 (as claimed): every connection error, connection close and channel
\* error event clears the channel handle and leaves recovery under way (an
\* attempt in progress or a timer pending), unless it ends the process.
C15_EventsStartRecovery ==
  [][(\E c \in ConnIds :
         \/ ConnectionError(c)
         \/ ConnectionClose(c)
         \/ (ChannelError(c, TRUE) /\ c = channel))
       => \/ exitCode' # -1
          \/ /\ channel' = NoChan
             /\ isReconnecting' \/ PendingTimers(Globals)' > 0]_vars

\* C16: when ensureExchange returns false for an authenticated request (the
\* broker rejected the assertion, or the channel object was already closed
\* when assertExchange was called), the request is answered 500, no publish
\* call is made for it and the globals are left alone.
C16_EnsureFailed500 ==
  [][(\/ response'.request = "refused"
      \/ /\ response'.request = "valid"
         /\ channel # NoChan /\ chans[channel] # "open")
       => /\ response'.status = 500
          /\ response'.publishes = 0
          /\ UNCHANGED core]_vars

\* A 500 after the broker rejected the assertion on the current channel.
C16_Witness ==
  /\ response.request = "refused" /\ response.status = 500
  /\ channel # NoChan /\ chans[channel] = "open"
  /\ exitCode = -1

\* C17: a request whose publish throws after a successful assertion is
\* answered 500.  When the channel object was closed ('Channel closed') the
\* handler clears channel and calls scheduleReconnect: a timer is armed unless
\* an attempt is in progress.  When the handle was null (a TypeError) the
\* globals are left alone.
C17_PublishThrows500 ==
  [][\A r \in Slots :
       (/\ response'.request = "declared"
        /\ inflight[r].busy /\ ~inflight'[r].busy
        /\ (channel = NoChan \/ chans'[channel] # "open"))
         => /\ response'.status = 500
            /\ channel = NoChan => UNCHANGED core
            /\ channel # NoChan =>
                 /\ channel' = NoChan
                 /\ UNCHANGED <<connection, isReconnecting, reconnectAttempts>>
                 /\ IF isReconnecting
                    THEN UNCHANGED <<reconnectTimer, orphanTimers>>
                    ELSE /\ reconnectTimer' = "armed"
                         /\ PendingTimers(Globals)' = PendingTimers(Globals) + 1]_vars

\* A 500 after publish threw 'Channel closed': the handle is cleared and a
\* timer armed while the connection is still open.
C17_Witness ==
  /\ response.request = "declared" /\ response.status = 500
  /\ channel = NoChan /\ reconnectTimer = "armed"
  /\ connection # 0 /\ conns[connection] = "open"
  /\ exitCode = -1

\* C18: no step that handles a webhook request ends the process; it sends a
\* response (401, 400, 503, 500 or 200) or suspends the request at line 179.
C18_RequestsNeverExit ==
  [][response'.request \in {"badToken", "noExchange", "valid", "declared", "refused"}
       => /\ exitCode' = -1
          /\ \/ response'.status \in {401, 400, 503, 500, 200}
             \/ \E r \in Slots : ~inflight[r].busy /\ inflight'[r].busy]_vars

\* A request was answered 503 from the branch that calls scheduleReconnect,
\* with the counter one short of the limit.
C18_Witness ==
  /\ response.request = "valid" /\ response.status = 503
  /\ exitCode = -1
  /\ reconnectAttempts = MAX_RECONNECT_ATTEMPTS - 1
  /\ ~isReconnecting

\* C19: connectRabbitMQ called while isReconnecting is true (by a timer that
\* fires during an attempt) returns false at once: connection, channel,
\* counter, flag, the suspended attempt and the other timers stay as they
\* are, and no connection is opened; only the timer that fired is gone.
C19_GuardedConnectNoEffect ==
  [][(TimerFire /\ isReconnecting)
       => /\ response'.request = "turnedAway"
          /\ UNCHANGED <<connection, channel, reconnectAttempts, isReconnecting,
                         exitCode, attempt, attemptCaller, attemptConn, conns,
                         hooked, chans, inflight>>
          /\ PendingTimers(Globals)' = PendingTimers(Globals) - 1]_vars

\* A timer fired during an attempt and connectRabbitMQ turned it away.
C19_Witness ==
  /\ response.request = "turnedAway"
  /\ isReconnecting /\ attempt # "none"
  /\ exitCode = -1

\* C20 (as claimed): at most one connection opened by the process is open at
\* any time.
C20_OneOpenConnection ==
  Cardinality({c \in ConnIds : conns[c] = "open"}) <= 1

\* C21 (as claimed): once the server listens, in every state with the process
\* alive and the channel handle null, a connect attempt is in flight or a
\* timer is pending, and reconnectTimer is not the stale handle of a timer
\* that has fired unless an attempt is in flight.
C21_RecoveryUnderWay ==
  (listening /\ exitCode = -1 /\ channel = NoChan)
    => /\ isReconnecting \/ PendingTimers(Globals) > 0
       /\ reconnectTimer = "fired" => isReconnecting

\* C21 (amended): the same in every state in which the SIGINT handler has
\* not started; the handler cancels the timer and then awaits close().
C21_RecoveryUnderWayUnlessShutdown ==
  (listening /\ exitCode = -1 /\ channel = NoChan /\ sigint.at = "none")
    => /\ isReconnecting \/ PendingTimers(Globals) > 0
       /\ reconnectTimer = "fired" => isReconnecting

\* After a successful connect the connection closed: the handles are null
\* and a timer is armed.
C21_Witness ==
  /\ listening /\ exitCode = -1 /\ sigint.at = "none"
  /\ channel = NoChan /\ connection = 0
  /\ ~isReconnecting /\ reconnectAttempts = 0
  /\ reconnectTimer = "armed"

\* C22 (as claimed): an 'error' or 'close' event of a connection other than
\* the current one, delivered while the current link is connected (handles
\* set, connection and channel open, no attempt in flight), leaves both
\* handles as they are and arms no timer.
C22_StaleEventsIgnored ==
  [][\A c \in ConnIds :
       (/\ ConnectionError(c) \/ ConnectionClose(c)
        /\ connection # 0 /\ c # connection
        /\ channel = connection
        /\ conns[connection] = "open" /\ chans[channel] = "open"
        /\ ~isReconnecting)
         => /\ UNCHANGED <<connection, channel>>
            /\ PendingTimers(Globals)' <= PendingTimers(Globals)]_vars
====
